---- MODULE Spec2Model ----
(***************************************************************************)
(* Model of the AudioSync service (src/app.py): the waveform offset        *)
(* estimator and aligner, and the /sync request handler that groups the    *)
(* uploaded files into clips and processes each clip into a multi-track    *)
(* .mov file.                                                              *)
(*                                                                         *)
(* Waveforms are sequences of integer samples.  An offset in seconds is a  *)
(* rational number, kept as a record [num, den] with den > 0.  The         *)
(* cross-correlation is computed exactly; the rounding of the float32 FFT  *)
(* that scipy uses is not part of the model.                               *)
(***************************************************************************)
EXTENDS Integers, Sequences, FiniteSets, TLC

\* ------------------------------------------------------------------------
\* Bounds of the model
\* ------------------------------------------------------------------------
MaxLen == 3          \* longest waveform, in samples
MaxTotal == 5        \* most samples of the two waveforms of a call together
MaxSample == 1       \* samples range over -1..MaxSample
MaxRate == 2         \* sample rates range over 1..MaxRate
OffsetDen == 2       \* offsets passed directly to the aligner are k/OffsetDen s
MaxOffNum == 5       \* ... with |k| <= MaxOffNum
MaxFiles == 4        \* most files uploaded in one /sync request

Samples == (0 - 1)..MaxSample
SampleRates == 1..MaxRate

RECURSIVE SeqsUpTo(_)
SeqsUpTo(n) == IF n = 0 THEN {<<>>} ELSE SeqsUpTo(n - 1) \cup [1..n -> Samples]

Waveforms == SeqsUpTo(MaxLen)
Offsets == [num : (0 - MaxOffNum)..MaxOffNum, den : {OffsetDen}]

VARIABLES
    cam_audio,      \* reference (camera scratch) waveform
    ext_audio,      \* external recorder waveform
    sample_rate,    \* common sample rate of both waveforms
    offset,         \* offset in seconds, [num, den], or NoOffset
    aligned,        \* result of build_aligned_external, or <<>> before it ran
    apc,            \* "start", "estimated", "aligned", "given"; "job" in a /sync job
    files,          \* request.files.getlist("files"), in upload order
    session_user,   \* session.get("user_id"), 0 when not logged in
    jpc,            \* position of the /sync handler
    tmpdir_exists,  \* the directory made by tempfile.mkdtemp exists
    tmp_files,      \* names of the files in that directory
    clips,          \* result of classify_and_group_files, in insertion order
    ci,             \* index in clips of the clip the loop is at
    clip_state,     \* per clip: how far process_clip_to_multitrack_mov got
    workdir_exists, \* the TemporaryDirectory of the clip being processed exists
    work_files,     \* names of the files in that directory
    ei,             \* index of the external being processed
    aligned_paths,  \* aligned wav files written so far for the clip
    outputs,        \* list of (clip_key, out_path)
    storage,        \* files under STORAGE_DIR: [path, holds]
    sync_jobs,      \* rows of the sync_jobs table
    resp,           \* response of the request, NoResp until it returns
    ext_rate,       \* sample rate of the external decoded last (sr_ext)
    ffmpeg_runs,    \* the ffmpeg commands run_ffmpeg has run, in order
    users,          \* rows of the users table, the id of a row is its index
    signups,        \* the POST /signup requests in progress, one record each
    served          \* what the last /download request was answered with

avars == <<cam_audio, ext_audio, sample_rate, offset, aligned, apc>>

jvars == <<files, session_user, jpc, tmpdir_exists, tmp_files, clips, ci,
           clip_state, workdir_exists, work_files, ei, aligned_paths, outputs,
           storage, sync_jobs, resp, ext_rate, ffmpeg_runs>>

svars == <<users, signups, served>>

vars == <<avars, jvars, svars>>

NoOffset == [num |-> 0, den |-> 0]

\* ------------------------------------------------------------------------
\* Numeric helpers
\* ------------------------------------------------------------------------
Min(a, b) == IF a <= b THEN a ELSE b

Zeros(n) == [i \in 1..n |-> 0]

RECURSIVE SumTo(_, _)
SumTo(s, n) == IF n = 0 THEN 0 ELSE s[n] + SumTo(s, n - 1)

Sum(s) == SumTo(s, Len(s))

\* Variant of Round: truncation, as int() alone would do.
RoundFloor(n, d) == n \div d

\* Python 3 round() of the non-negative rational n/d: nearest integer, a
\* tie going to the even neighbour.
Round(n, d) ==
    LET q == n \div d
        r == n % d
    IN  IF 2 * r < d THEN q
        ELSE IF 2 * r > d THEN q + 1
        ELSE IF q % 2 = 0 THEN q ELSE q + 1

\* ------------------------------------------------------------------------
\* estimate_offset_seconds
\* ------------------------------------------------------------------------
\* x -= x.mean(); x /= (x.std() + 1e-9).  The result is kept multiplied by
\* the positive number len(x) * (x.std() + 1e-9), which makes every entry an
\* integer and changes neither the position of the maximum of the
\* correlation nor which of its entries are equal.
Normalize(x) == [i \in 1..Len(x) |-> Len(x) * x[i] - Sum(x)]

\* One entry of the full cross-correlation: sum over l of x[l] * y[l - lag].
RECURSIVE CorrTo(_, _, _, _)
CorrTo(x, y, lag, l) ==
    IF l = 0 THEN 0
    ELSE (IF l - lag >= 1 /\ l - lag <= Len(y) THEN x[l] * y[l - lag] ELSE 0)
         + CorrTo(x, y, lag, l - 1)

CorrAt(x, y, lag) == CorrTo(x, y, lag, Len(x))

\* np.arange(-len(ext) + 1, len(cam))
Lags(cam, ext) == [k \in 1..(Len(cam) + Len(ext) - 1) |-> k - Len(ext)]

\* scipy.signal.correlate(cam, ext, mode="full"): entry k belongs to lag
\* Lags(cam, ext)[k].
Correlate(cam, ext) ==
    [k \in 1..(Len(cam) + Len(ext) - 1) |-> CorrAt(cam, ext, Lags(cam, ext)[k])]

\* Variant of ArgMax: the last occurrence of the maximum.
ArgMaxLast(a) ==
    CHOOSE k \in DOMAIN a :
        /\ \A j \in DOMAIN a : a[j] <= a[k]
        /\ \A j \in DOMAIN a : j > k => a[j] < a[k]

\* np.argmax: index of the first occurrence of the maximum.
ArgMax(a) ==
    CHOOSE k \in DOMAIN a :
        /\ \A j \in DOMAIN a : a[j] <= a[k]
        /\ \A j \in DOMAIN a : j < k => a[j] < a[k]

BestLag(cam, ext) ==
    LET corr == Correlate(Normalize(cam), Normalize(ext))
    IN  Lags(cam, ext)[ArgMax(corr)]

\* Variant of estimate_offset_seconds: best_lag / sample_rate, sign not flipped.
estimate_offset_unsigned(cam, ext, sr) ==
    [num |-> BestLag(cam, ext), den |-> sr]

\* offset_seconds = -best_lag / float(sample_rate)
estimate_offset_seconds(cam, ext, sr) ==
    [num |-> 0 - BestLag(cam, ext), den |-> sr]

\* ------------------------------------------------------------------------
\* build_aligned_external
\* ------------------------------------------------------------------------
\* Variant of PadSamples: one sample too many.
PadSamplesOffByOne(off, sr) == Round(off.num * sr, off.den) + 1

\* int(round(offset_seconds * sample_rate)), offset_seconds >= 0
PadSamples(off, sr) == Round(off.num * sr, off.den)

\* Variant of LeadSamples: truncated instead of rounded.
LeadSamplesFloor(off, sr) == RoundFloor((0 - off.num) * sr, off.den)

\* int(round(-offset_seconds * sample_rate)), offset_seconds < 0
LeadSamples(off, sr) == Round((0 - off.num) * sr, off.den)

\* Variant of AlignPad: the copy starts one index late.
AlignPadShiftedOne(n_cam, ext, start) ==
    IF start >= n_cam THEN Zeros(n_cam)
    ELSE LET end == Min(n_cam, start + Len(ext))
         IN  [i \in 1..n_cam |-> IF i > start + 1 /\ i <= end THEN ext[i - start - 1] ELSE 0]

\* offset_seconds >= 0: zeros, then ext copied from index start on
AlignPad(n_cam, ext, start) ==
    IF start >= n_cam THEN Zeros(n_cam)
    ELSE LET end == Min(n_cam, start + Len(ext))
         IN  [i \in 1..n_cam |-> IF i > start /\ i <= end THEN ext[i - start] ELSE 0]

\* Variant of AlignTrim: the trimmed external is returned without padding.
AlignTrimUnpadded(n_cam, ext, lead) ==
    IF lead >= Len(ext) THEN Zeros(n_cam)
    ELSE LET trimmed == SubSeq(ext, lead + 1, Len(ext))
             end == Min(n_cam, Len(trimmed))
         IN  SubSeq(trimmed, 1, end)

\* offset_seconds < 0: ext without its first lead samples, then zeros
AlignTrim(n_cam, ext, lead) ==
    IF lead >= Len(ext) THEN Zeros(n_cam)
    ELSE LET trimmed == SubSeq(ext, lead + 1, Len(ext))
             end == Min(n_cam, Len(trimmed))
         IN  [i \in 1..n_cam |-> IF i <= end THEN trimmed[i] ELSE 0]

build_aligned_external(cam, ext, sr, off) ==
    IF off.num >= 0
    THEN AlignPad(Len(cam), ext, PadSamples(off, sr))
    ELSE AlignTrim(Len(cam), ext, LeadSamples(off, sr))

\* ------------------------------------------------------------------------
\* Uploaded files and their names
\* ------------------------------------------------------------------------
\* A filename is its stem, as the sequence of its words and the separators
\* between them, and its extension.
VIDEO_EXTS == {".mp4", ".mov", ".mxf", ".avi", ".mkv", ".braw", ".r3d", ".crm"}

RAW_VIDEO_EXTS == {".braw", ".r3d", ".crm"}

AUDIO_EXTS == {".wav", ".mp3", ".m4a", ".aac", ".flac"}

Name(stem, ext) == [stem |-> stem, ext |-> ext]

EmptyName == Name(<<>>, "")

\* the names a client uploads in a /sync job of the model
Uploads ==
    { Name(<<"A", "_", "cam">>, ".mp4"),
      Name(<<"A", "_", "synced">>, ".mov"),
      Name(<<"A", "_", "zoom">>, ".wav"),
      Name(<<"A", "_", "boom">>, ".wav"),
      Name(<<"B", "_", "cam">>, ".BRAW"),
      Name(<<"B", " ", "zoom">>, ".WAV") }

\* the names classify_and_group_files is applied to on its own
GroupUploads ==
    Uploads \cup
    { Name(<<"C">>, ".txt"),
      Name(<<"D">>, ".mov"),
      EmptyName }

RECURSIVE FileListsUpTo(_)
FileListsUpTo(n) == IF n = 0 THEN {<<>>} ELSE FileListsUpTo(n - 1) \cup [1..n -> Uploads]

RECURSIVE GroupListsUpTo(_)
GroupListsUpTo(n) ==
    IF n = 0 THEN {<<>>} ELSE GroupListsUpTo(n - 1) \cup [1..n -> GroupUploads]

RECURSIVE StripLeading(_)
StripLeading(stem) ==
    IF stem # <<>> /\ stem[1] = "_" THEN StripLeading(Tail(stem)) ELSE stem

RECURSIVE StripTrailing(_)
StripTrailing(stem) ==
    IF stem # <<>> /\ stem[Len(stem)] = "_"
    THEN StripTrailing(SubSeq(stem, 1, Len(stem) - 1)) ELSE stem

\* werkzeug.utils.secure_filename: white space becomes "_", and "_" at
\* either end of the name is stripped.
secure_filename(f) ==
    LET joined == [i \in 1..Len(f.stem) |-> IF f.stem[i] = " " THEN "_" ELSE f.stem[i]]
    IN  IF f.ext = "" THEN Name(StripTrailing(StripLeading(joined)), "")
        ELSE Name(StripLeading(joined), f.ext)

\* str.lower() on an extension
Lower(e) ==
    CASE e = ".WAV" -> ".wav"
      [] e = ".MP4" -> ".mp4"
      [] e = ".BRAW" -> ".braw"
      [] OTHER -> e

\* base.split("_")[0]
KeyOfLast(stem) == IF stem = <<>> \/ stem[Len(stem)] = "_" THEN "" ELSE stem[Len(stem)]

KeyOf(stem) == IF stem = <<>> \/ stem[1] = "_" THEN "" ELSE stem[1]

KeyIndex(cl, key) ==
    IF \E i \in 1..Len(cl) : cl[i].key = key
    THEN CHOOSE i \in 1..Len(cl) : cl[i].key = key
    ELSE 0

\* one iteration of the loop of classify_and_group_files
AddFileAudioNeedsVideo(cl, storage_file) ==
    LET filename == secure_filename(storage_file)
    IN  IF filename = EmptyName THEN cl
        ELSE LET ext == Lower(filename.ext)
                 clip_key == KeyOf(filename.stem)
                 old == KeyIndex(cl, clip_key)
                 cl1 == IF old = 0
                        THEN Append(cl, [key |-> clip_key, videos |-> <<>>, audios |-> <<>>])
                        ELSE cl
                 j == IF old = 0 THEN Len(cl1) ELSE old
             IN  IF ext \in VIDEO_EXTS
                 THEN [cl1 EXCEPT ![j].videos = Append(@, filename)]
                 ELSE IF ext \in AUDIO_EXTS /\ cl1[j].videos # <<>>
                 THEN [cl1 EXCEPT ![j].audios = Append(@, filename)]
                 ELSE cl1

AddFile(cl, storage_file) ==
    LET filename == secure_filename(storage_file)
    IN  IF filename = EmptyName THEN cl
        ELSE LET ext == Lower(filename.ext)
                 clip_key == KeyOf(filename.stem)
                 old == KeyIndex(cl, clip_key)
                 cl1 == IF old = 0
                        THEN Append(cl, [key |-> clip_key, videos |-> <<>>, audios |-> <<>>])
                        ELSE cl
                 j == IF old = 0 THEN Len(cl1) ELSE old
             IN  IF ext \in VIDEO_EXTS
                 THEN [cl1 EXCEPT ![j].videos = Append(@, filename)]
                 ELSE IF ext \in AUDIO_EXTS
                 THEN [cl1 EXCEPT ![j].audios = Append(@, filename)]
                 ELSE cl1

RECURSIVE GroupTo(_, _)
GroupTo(uploaded_files, n) ==
    IF n = 0 THEN <<>> ELSE AddFile(GroupTo(uploaded_files, n - 1), uploaded_files[n])

\* classify_and_group_files: the clips, in the order their keys first occur
classify_and_group_files(uploaded_files) == GroupTo(uploaded_files, Len(uploaded_files))

\* the files classify_and_group_files saved in the job's directory
SavedNames(uploaded_files) ==
    { secure_filename(uploaded_files[i]) : i \in 1..Len(uploaded_files) } \ {EmptyName}

\* f"{clip_key}_synced.mov"
OutName(clip_key) == Name(<<clip_key, "_", "synced">>, ".mov")

ZipName == Name(<<"synced", "_", "clips">>, ".zip")

\* ------------------------------------------------------------------------
\* The /sync request
\* ------------------------------------------------------------------------
NoResp == [status |-> 0, kind |-> "none", names |-> <<>>]

Resp(status, kind, names) == [status |-> status, kind |-> kind, names |-> names]

\* load_audio_mono of the wav extracted from an upload, lines 1060-1065:
\* the samples are those of the uploaded file; in the model a video holds
\* the sound and an external recording holds it one sample later
Decoded(name) ==
    IF Lower(name.ext) \in VIDEO_EXTS THEN <<1, -1>> ELSE <<0, 1, -1>>

ANALYSIS_SAMPLE_RATE == 48000

DEFAULT_AUDIO_CODEC == "pcm_s16le"

\* os.path.join(tmpdir, name): a path in the directory of the job
JobPath(name) == [dir |-> "tmpdir", n |-> 0, name |-> name]

\* os.path.join(workdir, name): a path in the scratch directory of clip i
WorkPath(i, name) == [dir |-> "workdir", n |-> i, name |-> name]

\* str(idx) of the f-strings naming the scratch files
IdxStr(idx) == <<"0", "1", "2", "3", "4", "5", "6", "7">>[idx + 1]

\* "cam.wav", line 1121
CamWav == Name(<<"cam">>, ".wav")

\* f"ext_{idx}.wav", line 1128
ExtWav(idx) == Name(<<"ext", "_", IdxStr(idx)>>, ".wav")

\* f"ext_{idx}_aligned.wav", line 1140
AlignedWav(idx) == Name(<<"ext", "_", IdxStr(idx), "_", "aligned">>, ".wav")

\* a file of the scratch directory and the upload it was made from
WorkFile(name, from) == [name |-> name, from |-> from]

\* extract_mono_wav, lines 1050-1057: the arguments given to run_ffmpeg
ExtractArgs(input_path, output_path, sr) ==
    [kind |-> "extract",
     inputs |-> <<input_path>>,
     maps |-> <<>>,
     vcodec |-> <<"-vn">>,
     acodec |-> "",
     flags |-> {"-ac 1"},
     ar |-> sr,
     output |-> output_path]

\* lines 1155-1165: the video codec arguments of the mux
VideoCodecNoLower(video_path) ==
    IF video_path.name.ext \in RAW_VIDEO_EXTS
    THEN <<"-c:v", "prores_ks", "-profile:v", "3", "-pix_fmt", "yuv422p10le">>
    ELSE <<"-c:v", "copy">>

VideoCodec(video_path) ==
    IF Lower(video_path.name.ext) \in RAW_VIDEO_EXTS
    THEN <<"-c:v", "prores_ks", "-profile:v", "3", "-pix_fmt", "yuv422p10le">>
    ELSE <<"-c:v", "copy">>

\* lines 1144-1172: the arguments of the mux; a map <<i, "a", 0>> is
\* "-map i:a:0"
MuxArgsReversed(video_path, paths, output_path) ==
    [kind |-> "mux",
     inputs |-> <<video_path>> \o
                [i \in 1..Len(paths) |-> paths[Len(paths) + 1 - i]],
     maps |-> <<<<0, "v", 0>>, <<0, "a", 0>>>> \o
              [i \in 1..Len(paths) |-> <<i, "a", 0>>],
     vcodec |-> VideoCodec(video_path),
     acodec |-> DEFAULT_AUDIO_CODEC,
     flags |-> {"-shortest", "-movflags +faststart"},
     ar |-> 0,
     output |-> output_path]

MuxArgs(video_path, paths, output_path) ==
    [kind |-> "mux",
     inputs |-> <<video_path>> \o paths,
     maps |-> <<<<0, "v", 0>>, <<0, "a", 0>>>> \o
              [i \in 1..Len(paths) |-> <<i, "a", 0>>],
     vcodec |-> VideoCodec(video_path),
     acodec |-> DEFAULT_AUDIO_CODEC,
     flags |-> {"-shortest", "-movflags +faststart"},
     ar |-> 0,
     output |-> output_path]

\* ffmpeg refuses a command whose output is one of its inputs
\* ("Output same as Input"), so run_ffmpeg raises, lines 1045-1046
SameAsInput(args) == \E i \in 1..Len(args.inputs) : args.inputs[i] = args.output

\* run_ffmpeg, lines 1041-1047: the return codes a command can give
FfmpegResults(args) == IF SameAsInput(args) THEN {FALSE} ELSE BOOLEAN

\* the record of one run_ffmpeg call
Run(args, ok, clip) == [args |-> args, ok |-> ok, clip |-> clip]

\* line 1132
RateMismatchNever(sr_cam, sr_ext) == FALSE

RateMismatch(sr_cam, sr_ext) == sr_cam # sr_ext

\* ------------------------------------------------------------------------
\* Accounts and stored outputs
\* ------------------------------------------------------------------------
\* the email fields a form is posted with, as sequences of characters
Emails == { <<"a">>, <<" ", "A", " ">>, <<"b">>, <<" ">> }

\* the password fields a form is posted with
Passwords == { "", "pw", "bad" }

\* str.strip() on an email
RECURSIVE Strip(_)
Strip(e) ==
    IF e # <<>> /\ Head(e) = " " THEN Strip(Tail(e))
    ELSE IF e # <<>> /\ e[Len(e)] = " " THEN Strip(SubSeq(e, 1, Len(e) - 1))
    ELSE e

LowerChar(c) == CASE c = "A" -> "a" [] c = "B" -> "b" [] OTHER -> c

\* email.lower().strip(), lines 132 and 144
NormEmail(e) == Strip([i \in 1..Len(e) |-> LowerChar(e[i])])

\* werkzeug generate_password_hash and check_password_hash
generate_password_hash(password) == <<"hash", password>>

check_password_hash(pwhash, password) == pwhash = generate_password_hash(password)

\* find_user_by_email, lines 141-147: the id of the row, 0 for no row
find_user_by_email(rows, email) ==
    IF \E i \in 1..Len(rows) : rows[i].email = NormEmail(email)
    THEN CHOOSE i \in 1..Len(rows) : rows[i].email = NormEmail(email)
    ELSE 0

\* create_user, lines 123-138: the INSERT fails on the UNIQUE email and
\* create_user returns None (id 0), or the row is added and its id returned
create_user_no_unique(rows, email, password) ==
    [rows |-> Append(rows, [email |-> NormEmail(email),
                            password_hash |-> generate_password_hash(password)]),
     id |-> Len(rows) + 1]

create_user(rows, email, password) ==
    IF \E i \in 1..Len(rows) : rows[i].email = NormEmail(email)
    THEN [rows |-> rows, id |-> 0]
    ELSE [rows |-> Append(rows, [email |-> NormEmail(email),
                                 password_hash |-> generate_password_hash(password)]),
          id |-> Len(rows) + 1]

\* the account that exists before the requests of a model
ExistingUsers ==
    << [email |-> <<"b">>, password_hash |-> generate_password_hash("pw")] >>

\* what a stored output holds: the job that produced it and its clip
Content(t, clip_key) == [job |-> t, clip_key |-> clip_key]

NoContent == Content(0, "")

\* os.path.join(STORAGE_DIR, str(user_id), filename), lines 1349-1354
StoragePath(user_id, filename) == [user_id |-> user_id, filename |-> filename]

NoServed == [job_id |-> 0, path |-> StoragePath(0, EmptyName), holds |-> NoContent]

SiteIdle ==
    /\ users = ExistingUsers
    /\ signups = <<>>
    /\ served = NoServed

JobIdle ==
    /\ files = <<>>
    /\ session_user = 0
    /\ jpc = "idle"
    /\ tmpdir_exists = FALSE
    /\ tmp_files = {}
    /\ clips = <<>>
    /\ ci = 0
    /\ clip_state = <<>>
    /\ workdir_exists = FALSE
    /\ work_files = {}
    /\ ei = 0
    /\ aligned_paths = <<>>
    /\ outputs = <<>>
    /\ storage = {}
    /\ sync_jobs = <<>>
    /\ resp = NoResp
    /\ ext_rate = 0
    /\ ffmpeg_runs = <<>>

Init ==
    /\ files \in FileListsUpTo(MaxFiles)
    /\ session_user \in {0, 1}
    /\ jpc = "request"
    /\ tmpdir_exists = FALSE
    /\ tmp_files = {}
    /\ clips = <<>>
    /\ ci = 0
    /\ clip_state = <<>>
    /\ workdir_exists = FALSE
    /\ work_files = {}
    /\ ei = 0
    /\ aligned_paths = <<>>
    /\ outputs = <<>>
    /\ storage = {}
    /\ sync_jobs = <<>>
    /\ resp = NoResp
    /\ ext_rate = 0
    /\ ffmpeg_runs = <<>>
    /\ cam_audio = <<>>
    /\ ext_audio = <<>>
    /\ sample_rate = 0
    /\ offset = NoOffset
    /\ aligned = <<>>
    /\ apc = "job"
    /\ SiteIdle

\* line 1330: video_path = videos[0]
ReferenceVideoLast(c) == c.videos[Len(c.videos)]

ReferenceVideo(c) == c.videos[1]

\* line 1327, negated
ValidClipVideoOnly(c) == c.videos # <<>>

ValidClip(c) == c.videos # <<>> /\ c.audios # <<>>

\* sync_route, lines 1313-1321: no files, or mkdtemp and grouping
ReceiveSync ==
    /\ jpc = "request"
    /\ IF files = <<>>
       THEN /\ resp' = Resp(400, "nofiles", <<>>)
            /\ jpc' = "done"
            /\ UNCHANGED <<tmpdir_exists, tmp_files, clips, ci, clip_state>>
       ELSE /\ tmpdir_exists' = TRUE
            /\ tmp_files' = SavedNames(files)
            /\ clips' = classify_and_group_files(files)
            /\ clip_state' = [i \in 1..Len(clips') |-> "Pending"]
            /\ ci' = 1
            /\ jpc' = "loop"
            /\ UNCHANGED resp
    /\ UNCHANGED <<files, session_user, workdir_exists, work_files, ei,
                   aligned_paths, outputs, storage, sync_jobs, ext_rate,
                   ffmpeg_runs, avars>>
    /\ UNCHANGED svars

\* sync_route, lines 1327-1328: a clip without a video or without an audio
SkipClip ==
    /\ jpc = "loop"
    /\ ci <= Len(clips)
    /\ ~ValidClip(clips[ci])
    /\ ci' = ci + 1
    /\ UNCHANGED <<files, session_user, jpc, tmpdir_exists, tmp_files, clips,
                   clip_state, workdir_exists, work_files, ei, aligned_paths,
                   outputs, storage, sync_jobs, resp, ext_rate, ffmpeg_runs,
                   avars>>
    /\ UNCHANGED svars

\* An exception raised in process_clip_to_multitrack_mov: the with block
\* removes the scratch directory, the exception leaves the loop of
\* sync_route through its finally clause, which does nothing, and the
\* request ends with status 500.  The response is tagged with the message
\* of the exception.
RaiseKeepingWorkdir(message) ==
    /\ UNCHANGED <<workdir_exists, work_files>>
    /\ clip_state' = [clip_state EXCEPT ![ci] = "Failed"]
    /\ resp' = Resp(500, message, <<>>)
    /\ jpc' = "done"

Raise(message) ==
    /\ workdir_exists' = FALSE
    /\ work_files' = {}
    /\ clip_state' = [clip_state EXCEPT ![ci] = "Failed"]
    /\ resp' = Resp(500, message, <<>>)
    /\ jpc' = "done"

\* process_clip_to_multitrack_mov, lines 1118-1120: ensure_ffmpeg and the
\* scratch directory
StartClip ==
    /\ jpc = "loop"
    /\ ci <= Len(clips)
    /\ ValidClip(clips[ci])
    /\ \E ffmpeg_found \in BOOLEAN :
        IF ffmpeg_found
        THEN /\ workdir_exists' = TRUE
             /\ work_files' = {}
             /\ clip_state' = [clip_state EXCEPT ![ci] = "Decoding"]
             /\ aligned_paths' = <<>>
             /\ ei' = 0
             /\ jpc' = "cam"
             /\ UNCHANGED resp
        ELSE /\ Raise("ffmpeg not found")
             /\ UNCHANGED <<aligned_paths, ei>>
    /\ UNCHANGED <<files, session_user, tmpdir_exists, tmp_files, clips, ci,
                   outputs, storage, sync_jobs, ext_rate, ffmpeg_runs, avars>>
    /\ UNCHANGED svars

\* lines 1121-1123: extract_mono_wav and load_audio_mono of the video,
\* which is the first video of the clip (line 1330); a clip without
\* externals goes to the mux directly
DecodeCam ==
    /\ jpc = "cam"
    /\ LET video == ReferenceVideo(clips[ci])
           args  == ExtractArgs(JobPath(video), WorkPath(ci, CamWav),
                                ANALYSIS_SAMPLE_RATE)
       IN \E ok \in FfmpegResults(args) :
            /\ ffmpeg_runs' = Append(ffmpeg_runs, Run(args, ok, ci))
            /\ IF ok
               THEN /\ cam_audio' = Decoded(video)
                    /\ \E sr \in SampleRates : sample_rate' = sr
                    /\ work_files' = work_files \cup {WorkFile(CamWav, video)}
                    /\ IF clips[ci].audios = <<>>
                       THEN /\ clip_state' = [clip_state EXCEPT ![ci] = "Muxing"]
                            /\ jpc' = "mux"
                            /\ UNCHANGED ei
                       ELSE /\ ei' = 1
                            /\ jpc' = "ext"
                            /\ UNCHANGED clip_state
                    /\ UNCHANGED <<workdir_exists, resp>>
               ELSE /\ Raise("ffmpeg command failed")
                    /\ UNCHANGED <<cam_audio, sample_rate, ei>>
    /\ UNCHANGED <<files, session_user, tmpdir_exists, tmp_files, clips, ci,
                   aligned_paths, outputs, storage, sync_jobs, ext_rate,
                   ext_audio, offset, aligned, apc>>
    /\ UNCHANGED svars

\* lines 1128-1133: extract_mono_wav and load_audio_mono of external ei
\* (idx = ei - 1), and the comparison of its sample rate with the video's
DecodeExt ==
    /\ jpc = "ext"
    /\ LET audio == clips[ci].audios[ei]
           args  == ExtractArgs(JobPath(audio), WorkPath(ci, ExtWav(ei - 1)),
                                ANALYSIS_SAMPLE_RATE)
       IN \E ok \in FfmpegResults(args) :
            /\ ffmpeg_runs' = Append(ffmpeg_runs, Run(args, ok, ci))
            /\ IF ok
               THEN \E sr_ext \in SampleRates :
                       /\ ext_audio' = Decoded(audio)
                       /\ ext_rate' = sr_ext
                       /\ IF RateMismatch(sample_rate, sr_ext)
                          THEN Raise("Sample rate mismatch")
                          ELSE /\ work_files' = work_files \cup
                                      {WorkFile(ExtWav(ei - 1), audio)}
                               /\ clip_state' =
                                      [clip_state EXCEPT ![ci] = "Estimating"]
                               /\ jpc' = "estimate"
                               /\ UNCHANGED <<workdir_exists, resp>>
               ELSE /\ Raise("ffmpeg command failed")
                    /\ UNCHANGED <<ext_audio, ext_rate>>
    /\ UNCHANGED <<files, session_user, tmpdir_exists, tmp_files, clips, ci, ei,
                   aligned_paths, outputs, storage, sync_jobs, cam_audio,
                   sample_rate, offset, aligned, apc>>
    /\ UNCHANGED svars

\* line 1135
Estimate ==
    /\ jpc = "estimate"
    /\ offset' = estimate_offset_seconds(cam_audio, ext_audio, sample_rate)
    /\ clip_state' = [clip_state EXCEPT ![ci] = "Aligning"]
    /\ jpc' = "align"
    /\ UNCHANGED <<files, session_user, tmpdir_exists, tmp_files, clips, ci,
                   workdir_exists, work_files, ei, aligned_paths, outputs,
                   storage, sync_jobs, resp, ext_rate, ffmpeg_runs, cam_audio,
                   ext_audio, sample_rate, aligned, apc>>
    /\ UNCHANGED svars

\* lines 1139-1142, and the next iteration or the end of the loop over the
\* externals
AlignOnce ==
    /\ jpc = "align"
    /\ aligned' = build_aligned_external(cam_audio, ext_audio, sample_rate, offset)
    /\ work_files' = work_files \cup
           {WorkFile(AlignedWav(ei - 1), clips[ci].audios[ei])}
    /\ aligned_paths' = Append(aligned_paths, WorkPath(ci, AlignedWav(ei - 1)))
    /\ clip_state' = [clip_state EXCEPT ![ci] = "Muxing"]
    /\ jpc' = "mux"
    /\ UNCHANGED ei
    /\ UNCHANGED <<files, session_user, tmpdir_exists, tmp_files, clips, ci,
                   workdir_exists, outputs, storage, sync_jobs, resp, ext_rate,
                   ffmpeg_runs, cam_audio, ext_audio, sample_rate, offset, apc>>
    /\ UNCHANGED svars

Align ==
    /\ jpc = "align"
    /\ aligned' = build_aligned_external(cam_audio, ext_audio, sample_rate, offset)
    /\ work_files' = work_files \cup
           {WorkFile(AlignedWav(ei - 1), clips[ci].audios[ei])}
    /\ aligned_paths' = Append(aligned_paths, WorkPath(ci, AlignedWav(ei - 1)))
    /\ IF ei < Len(clips[ci].audios)
       THEN /\ ei' = ei + 1
            /\ clip_state' = [clip_state EXCEPT ![ci] = "Decoding"]
            /\ jpc' = "ext"
       ELSE /\ clip_state' = [clip_state EXCEPT ![ci] = "Muxing"]
            /\ jpc' = "mux"
            /\ UNCHANGED ei
    /\ UNCHANGED <<files, session_user, tmpdir_exists, tmp_files, clips, ci,
                   workdir_exists, outputs, storage, sync_jobs, resp, ext_rate,
                   ffmpeg_runs, cam_audio, ext_audio, sample_rate, offset, apc>>
    /\ UNCHANGED svars

\* lines 1144-1174 and 1337: run_ffmpeg writes the output into the job's
\* directory, the scratch directory is removed, the output is recorded
Mux ==
    /\ jpc = "mux"
    /\ LET args == MuxArgs(JobPath(ReferenceVideo(clips[ci])), aligned_paths,
                           JobPath(OutName(clips[ci].key)))
       IN \E ok \in FfmpegResults(args) :
            /\ ffmpeg_runs' = Append(ffmpeg_runs, Run(args, ok, ci))
            /\ IF ok
               THEN /\ tmp_files' = tmp_files \cup {OutName(clips[ci].key)}
                    /\ workdir_exists' = FALSE
                    /\ work_files' = {}
                    /\ clip_state' = [clip_state EXCEPT ![ci] = "Done"]
                    /\ outputs' = Append(outputs,
                                         <<clips[ci].key, OutName(clips[ci].key)>>)
                    /\ ci' = ci + 1
                    /\ jpc' = "loop"
                    /\ UNCHANGED resp
               ELSE /\ Raise("ffmpeg command failed")
                    /\ UNCHANGED <<tmp_files, outputs, ci>>
    /\ UNCHANGED <<files, session_user, tmpdir_exists, clips, ei, aligned_paths,
                   storage, sync_jobs, ext_rate, avars>>
    /\ UNCHANGED svars

\* the number of the next job that is recorded; the rows of the model carry
\* the number of the job that inserted them, which is no column of the table
NextJob(rows) == IF rows = <<>> THEN 1 ELSE rows[Len(rows)].job + 1

\* shutil.copy2 of the outputs to the directory of the user, lines 1349-1355:
\* a file already at dest_path is replaced
CopyOutputs(stored, user_id, outs, t) ==
    { f \in stored :
        \A i \in 1..Len(outs) : f.path # StoragePath(user_id, outs[i][2]) }
    \cup
    { [path |-> StoragePath(user_id, outs[i][2]), holds |-> Content(t, outs[i][1])] :
        i \in 1..Len(outs) }

\* the rows create_sync_job inserts for the outputs, lines 1352-1357; the id
\* of a row is its index in the table
JobRows(user_id, outs, t) ==
    [i \in 1..Len(outs) |->
        [user_id |-> user_id, clip_key |-> outs[i][1], filename |-> outs[i][2],
         storage_path |-> StoragePath(user_id, outs[i][2]), job |-> t]]

\* sync_route, lines 1339-1382: after the loop
FinishJob ==
    /\ jpc = "loop"
    /\ ci > Len(clips)
    /\ IF outputs = <<>>
       THEN /\ resp' = Resp(400, "novalid", <<>>)
            /\ UNCHANGED <<storage, sync_jobs, tmp_files>>
       ELSE /\ IF session_user # 0
               THEN /\ storage' = CopyOutputs(storage, session_user, outputs,
                                             NextJob(sync_jobs))
                    /\ sync_jobs' = sync_jobs \o
                          JobRows(session_user, outputs, NextJob(sync_jobs))
               ELSE UNCHANGED <<storage, sync_jobs>>
            /\ IF Len(outputs) = 1
               THEN /\ resp' = Resp(200, "file", <<outputs[1][2]>>)
                    /\ UNCHANGED tmp_files
               ELSE /\ tmp_files' = tmp_files \cup {ZipName}
                    /\ resp' = Resp(200, "zip",
                                    [i \in 1..Len(outputs) |-> outputs[i][2]])
    /\ jpc' = "done"
    /\ UNCHANGED <<files, session_user, tmpdir_exists, clips, ci, clip_state,
                   workdir_exists, work_files, ei, aligned_paths, outputs,
                   ext_rate, ffmpeg_runs, avars>>
    /\ UNCHANGED svars

Next ==
    \/ ReceiveSync
    \/ SkipClip
    \/ StartClip
    \/ DecodeCam
    \/ DecodeExt
    \/ Estimate
    \/ Align
    \/ Mux
    \/ FinishJob

Spec == Init /\ [][Next]_vars

\* ------------------------------------------------------------------------
\* classify_and_group_files applied to a list of uploads on its own

InitGroup ==
    /\ files \in GroupListsUpTo(MaxFiles)
    /\ session_user = 0
    /\ jpc = "group"
    /\ tmpdir_exists = TRUE
    /\ tmp_files = {}
    /\ clips = <<>>
    /\ ci = 0
    /\ clip_state = <<>>
    /\ workdir_exists = FALSE
    /\ work_files = {}
    /\ ei = 0
    /\ aligned_paths = <<>>
    /\ outputs = <<>>
    /\ storage = {}
    /\ sync_jobs = <<>>
    /\ resp = NoResp
    /\ ext_rate = 0
    /\ ffmpeg_runs = <<>>
    /\ cam_audio = <<>>
    /\ ext_audio = <<>>
    /\ sample_rate = 0
    /\ offset = NoOffset
    /\ aligned = <<>>
    /\ apc = "job"
    /\ SiteIdle

\* line 1321: the uploads are saved and grouped
Group ==
    /\ jpc = "group"
    /\ tmp_files' = SavedNames(files)
    /\ clips' = classify_and_group_files(files)
    /\ jpc' = "grouped"
    /\ UNCHANGED <<files, session_user, tmpdir_exists, ci, clip_state,
                   workdir_exists, work_files, ei, aligned_paths, outputs,
                   storage, sync_jobs, resp, ext_rate, ffmpeg_runs, avars>>
    /\ UNCHANGED svars

NextGroup == Group

SpecGroup == InitGroup /\ [][NextGroup]_vars


\* ------------------------------------------------------------------------
\* One browser session against the site: accounts, jobs and downloads
\* ------------------------------------------------------------------------
\* the number of recorded jobs the model follows
MaxJobs == 2

\* the keys of the complete clips of a job, in upload order
JobKeyLists == { <<>>, <<"A">>, <<"B">>, <<"A", "B">> }

\* the job ids a download is requested for: those of the rows and unknown ones
JobIds == 1..(2 * MaxJobs + 1)

InitSite ==
    /\ JobIdle
    /\ cam_audio = <<>>
    /\ ext_audio = <<>>
    /\ sample_rate = 0
    /\ offset = NoOffset
    /\ aligned = <<>>
    /\ apc = "job"
    /\ SiteIdle

\* a request of the site leaves the variables of a running job alone
SiteUnchanged ==
    UNCHANGED <<files, jpc, tmpdir_exists, tmp_files, clips, ci, clip_state,
                workdir_exists, work_files, ei, aligned_paths, outputs,
                ext_rate, ffmpeg_runs, avars>>

\* signup, lines 1219-1244
SiteSignup(form_email, password) ==
    LET email == Strip(form_email)
        made == create_user(users, email, password)
    IN  /\ IF email = <<>> \/ password = ""
           THEN /\ resp' = Resp(200, "required", <<>>)
                /\ UNCHANGED <<users, session_user>>
           ELSE IF find_user_by_email(users, email) # 0
           THEN /\ resp' = Resp(200, "registered", <<>>)
                /\ UNCHANGED <<users, session_user>>
           ELSE IF made.id = 0
           THEN /\ resp' = Resp(200, "notcreated", <<>>)
                /\ UNCHANGED <<users, session_user>>
           ELSE /\ users' = made.rows
                /\ session_user' = made.id
                /\ resp' = Resp(302, "profile", <<>>)
        /\ UNCHANGED <<storage, sync_jobs, served, signups>>
        /\ SiteUnchanged

\* login, lines 1255-1267
SiteLogin(form_email, password) ==
    LET email == Strip(form_email)
        user == find_user_by_email(users, email)
    IN  /\ IF user = 0 \/ ~check_password_hash(users[user].password_hash, password)
           THEN /\ resp' = Resp(200, "invalid", <<>>)
                /\ UNCHANGED session_user
           ELSE /\ session_user' = user
                /\ resp' = Resp(302, "profile", <<>>)
        /\ UNCHANGED <<users, storage, sync_jobs, served, signups>>
        /\ SiteUnchanged

\* logout, lines 1270-1273
SiteLogout ==
    /\ session_user' = 0
    /\ resp' = Resp(302, "index", <<>>)
    /\ UNCHANGED <<users, storage, sync_jobs, served, signups>>
    /\ SiteUnchanged

\* sync_route, lines 1311-1382, for a job whose complete clips have the given
\* keys and whose clips are all processed
SiteSync(keys) ==
    LET outs == [i \in 1..Len(keys) |-> <<keys[i], OutName(keys[i])>>]
    IN  /\ IF outs = <<>>
           THEN /\ resp' = Resp(400, "novalid", <<>>)
                /\ UNCHANGED <<storage, sync_jobs>>
           ELSE /\ IF session_user # 0
                   THEN /\ NextJob(sync_jobs) <= MaxJobs
                        /\ storage' = CopyOutputs(storage, session_user, outs,
                                                  NextJob(sync_jobs))
                        /\ sync_jobs' = sync_jobs \o
                              JobRows(session_user, outs, NextJob(sync_jobs))
                   ELSE UNCHANGED <<storage, sync_jobs>>
                /\ IF Len(outs) = 1
                   THEN resp' = Resp(200, "file", <<outs[1][2]>>)
                   ELSE resp' = Resp(200, "zip", [i \in 1..Len(outs) |-> outs[i][2]])
        /\ UNCHANGED <<users, session_user, served, signups>>
        /\ SiteUnchanged

\* get_job_for_user, lines 193-205: the id of the row, 0 for no row
get_job_any_user(rows, job_id, user_id) ==
    IF job_id \in 1..Len(rows) THEN job_id ELSE 0

get_job_for_user(rows, job_id, user_id) ==
    IF job_id \in 1..Len(rows) /\ rows[job_id].user_id = user_id THEN job_id ELSE 0

\* os.path.isfile under STORAGE_DIR
IsStored(path) == \E f \in storage : f.path = path

FileAt(path) == CHOOSE f \in storage : f.path = path

NotServed(job_id) ==
    [job_id |-> job_id, path |-> NoServed.path, holds |-> NoContent]

\* download, lines 1289-1308
SiteDownload(job_id) ==
    LET job == get_job_for_user(sync_jobs, job_id, session_user)
    IN  /\ IF session_user = 0
           THEN /\ resp' = Resp(302, "login", <<>>)
                /\ served' = NotServed(job_id)
           ELSE IF job = 0
           THEN /\ resp' = Resp(404, "notfound", <<>>)
                /\ served' = NotServed(job_id)
           ELSE IF ~IsStored(sync_jobs[job].storage_path)
           THEN /\ resp' = Resp(404, "gone", <<>>)
                /\ served' = NotServed(job_id)
           ELSE /\ resp' = Resp(200, "download", <<sync_jobs[job].filename>>)
                /\ served' = [job_id |-> job_id,
                              path |-> sync_jobs[job].storage_path,
                              holds |-> FileAt(sync_jobs[job].storage_path).holds]
        /\ UNCHANGED <<users, session_user, storage, sync_jobs, signups>>
        /\ SiteUnchanged

NextSite ==
    \/ \E e \in Emails, p \in Passwords : SiteSignup(e, p)
    \/ \E e \in Emails, p \in Passwords : SiteLogin(e, p)
    \/ SiteLogout
    \/ \E keys \in JobKeyLists : SiteSync(keys)
    \/ \E j \in JobIds : SiteDownload(j)

SpecSite == InitSite /\ [][NextSite]_vars


\* ------------------------------------------------------------------------
\* Concurrent POST /signup requests
\* ------------------------------------------------------------------------
\* the number of signup requests in progress at once
MaxSignups == 2

\* a POST /signup request as it arrives: its form, and the user_id of the
\* session of its cookie (0 for none, 1 for the existing account)
SignupRequest(form_email, password, user_id) ==
    [pc |-> "request", email |-> form_email, password |-> password,
     cookie |-> user_id, session |-> user_id, resp |-> NoResp]

SignupRequests ==
    { SignupRequest(e, p, u) : e \in Emails, p \in Passwords, u \in {0, 1} }

RECURSIVE SeqsOf(_, _)
SeqsOf(S, n) ==
    IF n = 0 THEN { <<>> }
    ELSE { Append(q, x) : q \in SeqsOf(S, n - 1), x \in S }

InitSignup ==
    /\ JobIdle
    /\ cam_audio = <<>>
    /\ ext_audio = <<>>
    /\ sample_rate = 0
    /\ offset = NoOffset
    /\ aligned = <<>>
    /\ apc = "job"
    /\ users = ExistingUsers
    /\ served = NoServed
    /\ signups \in SeqsOf(SignupRequests, MaxSignups)

\* a step of a signup request leaves the jobs and the downloads alone
SignupUnchanged ==
    UNCHANGED <<jvars, avars, served>>

\* signup, lines 1219-1233: the form is read and the email looked up
SignupLookup(i) ==
    LET email == Strip(signups[i].email)
    IN  /\ signups[i].pc = "request"
        /\ IF email = <<>> \/ signups[i].password = ""
           THEN signups' = [signups EXCEPT ![i].pc = "done",
                                           ![i].resp = Resp(200, "required", <<>>)]
           ELSE IF find_user_by_email(users, email) # 0
           THEN signups' = [signups EXCEPT ![i].pc = "done",
                                           ![i].resp = Resp(200, "registered", <<>>)]
           ELSE signups' = [signups EXCEPT ![i].pc = "create"]
        /\ UNCHANGED users
        /\ SignupUnchanged

\* signup, lines 1235-1244: the row is inserted and the session written
SignupCreate(i) ==
    LET email == Strip(signups[i].email)
        made == create_user(users, email, signups[i].password)
    IN  /\ signups[i].pc = "create"
        /\ IF made.id = 0
           THEN /\ signups' = [signups EXCEPT ![i].pc = "done",
                                              ![i].resp = Resp(200, "notcreated", <<>>)]
                /\ UNCHANGED users
           ELSE /\ users' = made.rows
                /\ signups' = [signups EXCEPT ![i].pc = "done",
                                              ![i].session = made.id,
                                              ![i].resp = Resp(302, "profile", <<>>)]
        /\ SignupUnchanged

NextSignup ==
    \/ \E i \in 1..MaxSignups : SignupLookup(i)
    \/ \E i \in 1..MaxSignups : SignupCreate(i)

SpecSignup == InitSignup /\ [][NextSignup]_vars


\* ------------------------------------------------------------------------
\* The estimator and the aligner applied to bounded inputs
\* ------------------------------------------------------------------------
InitAlign ==
    /\ cam_audio \in Waveforms
    /\ ext_audio \in Waveforms
    /\ Len(cam_audio) + Len(ext_audio) <= MaxTotal
    /\ sample_rate \in SampleRates
    /\ offset = NoOffset
    /\ aligned = <<>>
    /\ apc = "start"
    /\ JobIdle
    /\ SiteIdle

\* process_clip_to_multitrack_mov, line 1135
EstimateOffset ==
    /\ apc = "start"
    /\ Len(cam_audio) >= 1
    /\ Len(ext_audio) >= 1
    /\ offset' = estimate_offset_seconds(cam_audio, ext_audio, sample_rate)
    /\ apc' = "estimated"
    /\ UNCHANGED <<cam_audio, ext_audio, sample_rate, aligned, jvars>>
    /\ UNCHANGED svars

\* process_clip_to_multitrack_mov, line 1139
BuildAligned ==
    /\ apc = "estimated"
    /\ aligned' = build_aligned_external(cam_audio, ext_audio, sample_rate, offset)
    /\ apc' = "aligned"
    /\ UNCHANGED <<cam_audio, ext_audio, sample_rate, offset, jvars>>
    /\ UNCHANGED svars

\* build_aligned_external called with an offset of the caller's choice
AlignGiven ==
    /\ apc = "start"
    /\ \E o \in Offsets :
        /\ offset' = o
        /\ aligned' = build_aligned_external(cam_audio, ext_audio, sample_rate, o)
    /\ apc' = "given"
    /\ UNCHANGED <<cam_audio, ext_audio, sample_rate, jvars>>
    /\ UNCHANGED svars

NextAlign == EstimateOffset \/ BuildAligned \/ AlignGiven

SpecAlign == InitAlign /\ [][NextAlign]_vars

\* ------------------------------------------------------------------------
\* Shifted copies of the reference
\* ------------------------------------------------------------------------
\* ext is cam delayed by d samples: d zeros, then cam
IsDelayed(cam, ext, d) == ext = Zeros(d) \o cam

\* ext is cam advanced by d samples: cam without its first d samples
IsAdvanced(cam, ext, d) == d < Len(cam) /\ ext = SubSeq(cam, d + 1, Len(cam))

Shifts == 1..MaxLen

Abs(a) == IF a < 0 THEN 0 - a ELSE a

Estimated == apc \in {"estimated", "aligned"}

\* the value of the normalised cross-correlation at a lag
C(lag) == CorrAt(Normalize(cam_audio), Normalize(ext_audio), lag)

AllLags == (1 - Len(ext_audio))..(Len(cam_audio) - 1)

\* lag is the lowest lag at which the cross-correlation is maximal
LowestMax(lag) ==
    /\ lag \in AllLags
    /\ \A m \in AllLags : C(m) <= C(lag) /\ (m < lag => C(m) < C(lag))

\* the returned offset, in samples: offset * sample_rate = n
OffsetIsSamples(n) == offset.num * sample_rate = n * offset.den

\* C2 as stated: a copy delayed by d gives an offset within one sample
\* period of +d, a copy advanced by d an offset within one sample period
\* of -d.
C2_SignConventionAll ==
    Estimated =>
        \A d \in Shifts :
            /\ IsDelayed(cam_audio, ext_audio, d) =>
                   Abs(offset.num * sample_rate - d * offset.den) <= offset.den
            /\ IsAdvanced(cam_audio, ext_audio, d) =>
                   Abs(offset.num * sample_rate + d * offset.den) <= offset.den

NonConst(x) == \E i, j \in DOMAIN x : x[i] # x[j]

\* C2, amended: a copy delayed by d of a reference whose samples sum to zero
\* and are not all zero gives exactly +d; and any shifted copy gives its true
\* shift (+d delayed, -d advanced) whenever the true lag is the lowest lag
\* at which the normalised cross-correlation is maximal.
C2_SignConvention ==
    Estimated =>
        \A d \in 0..MaxLen :
            /\ (IsDelayed(cam_audio, ext_audio, d) /\ Sum(cam_audio) = 0
                    /\ NonConst(cam_audio)) => OffsetIsSamples(d)
            /\ (IsDelayed(cam_audio, ext_audio, d) /\ LowestMax(0 - d))
                    => OffsetIsSamples(d)
            /\ (IsAdvanced(cam_audio, ext_audio, d) /\ LowestMax(d))
                    => OffsetIsSamples(0 - d)

C2_Witness ==
    /\ Estimated
    /\ Sum(cam_audio) = 0
    /\ NonConst(cam_audio)
    /\ IsDelayed(cam_audio, ext_audio, 1)
    /\ OffsetIsSamples(1)

\* the indices of the aligned track that were filled from the external
ContentIdx ==
    IF offset.num >= 0
    THEN LET pad == Round(offset.num * sample_rate, offset.den)
         IN  {i \in 1..Len(cam_audio) : i > pad /\ i - pad <= Len(ext_audio)}
    ELSE LET lead == Round((0 - offset.num) * sample_rate, offset.den)
         IN  {i \in 1..Len(cam_audio) : i + lead <= Len(ext_audio)}

\* C1: for an external that is a copy of the reference shifted by d samples,
\* aligning it by the estimated offset puts at every index that carries
\* external content the sample the reference has at that index.
C1_CompositionSynchronizes ==
    apc = "aligned" =>
        \A d \in Shifts :
            (IsDelayed(cam_audio, ext_audio, d) \/ IsAdvanced(cam_audio, ext_audio, d))
                => \A i \in ContentIdx : aligned[i] = cam_audio[i]

Aligned == apc \in {"aligned", "given"}

\* C3: the aligned track has exactly the length of the reference.
C3_AlignedLength == Aligned => Len(aligned) = Len(cam_audio)

C3_Witness ==
    /\ apc = "given"
    /\ offset.num < 0
    /\ Len(ext_audio) < Len(cam_audio)
    /\ Round((0 - offset.num) * sample_rate, offset.den) \in 1..(Len(ext_audio) - 1)
    /\ Len(aligned) = Len(cam_audio)

\* C7: for an offset >= 0 and pad = round(offset * sample_rate), the output
\* holds external[i] at pad + i wherever that fits in the reference length
\* and zero everywhere else.
C7_AlignNonNegative ==
    (Aligned /\ offset.num >= 0) =>
        LET pad == Round(offset.num * sample_rate, offset.den)
        IN  /\ DOMAIN aligned = DOMAIN cam_audio
            /\ \A i \in DOMAIN cam_audio :
                   aligned[i] = IF i > pad /\ i - pad <= Len(ext_audio)
                                THEN ext_audio[i - pad] ELSE 0
            /\ pad >= Len(cam_audio) => aligned = Zeros(Len(cam_audio))

C7_Witness ==
    /\ apc = "given"
    /\ offset.num > 0
    /\ Round(offset.num * sample_rate, offset.den) = 1
    /\ Len(cam_audio) = 3
    /\ Len(ext_audio) = 2
    /\ ext_audio[1] # 0 /\ ext_audio[2] # 0
    /\ aligned = <<0, ext_audio[1], ext_audio[2]>>

\* C8: for an offset < 0 and lead = round(-offset * sample_rate), the output
\* holds external[lead + i] at i wherever that exists and zero everywhere
\* else.
C8_AlignNegative ==
    (Aligned /\ offset.num < 0) =>
        LET lead == Round((0 - offset.num) * sample_rate, offset.den)
        IN  /\ DOMAIN aligned = DOMAIN cam_audio
            /\ \A i \in DOMAIN cam_audio :
                   aligned[i] = IF i + lead <= Len(ext_audio)
                                THEN ext_audio[i + lead] ELSE 0
            /\ lead >= Len(ext_audio) => aligned = Zeros(Len(cam_audio))

C8_Witness ==
    /\ apc = "given"
    /\ offset.num < 0
    /\ Round((0 - offset.num) * sample_rate, offset.den) = 2
    /\ ((0 - offset.num) * sample_rate) % offset.den # 0
    /\ Len(cam_audio) = 2
    /\ Len(ext_audio) = 3
    /\ ext_audio[3] # 0
    /\ aligned = <<ext_audio[3], 0>>

\* C9: with offset 0 the output is the external truncated to the reference
\* length, or zero-padded at its end up to the reference length.
C9_ZeroOffset ==
    (Aligned /\ offset.num = 0) =>
        /\ Len(ext_audio) >= Len(cam_audio)
               => aligned = SubSeq(ext_audio, 1, Len(cam_audio))
        /\ Len(ext_audio) < Len(cam_audio)
               => aligned = ext_audio \o Zeros(Len(cam_audio) - Len(ext_audio))

C9_Witness ==
    /\ apc = "given"
    /\ offset.num = 0
    /\ Len(ext_audio) = 2
    /\ Len(cam_audio) = 3
    /\ ext_audio[1] # 0
    /\ aligned = <<ext_audio[1], ext_audio[2], 0>>

\* C10: the returned offset is -L / sample_rate, where L is a lag between
\* -(len(ext)-1) and len(cam)-1 at which the cross-correlation is globally
\* maximal and below which it is nowhere maximal; for a constant signal L is
\* the lowest lag.
C10_LagSelection ==
    Estimated =>
        /\ offset.den = sample_rate
        /\ LowestMax(0 - offset.num)
        /\ (~NonConst(cam_audio) \/ ~NonConst(ext_audio))
               => 0 - offset.num = 1 - Len(ext_audio)

C10_Witness ==
    /\ Estimated
    /\ NonConst(cam_audio)
    /\ NonConst(ext_audio)
    /\ \E m \in AllLags : m > 0 - offset.num /\ C(m) = C(0 - offset.num)
    /\ \E m \in AllLags : m < 0 - offset.num

\* ------------------------------------------------------------------------
\* The /sync job as a whole
\* ------------------------------------------------------------------------
JobEnded == jpc = "done" /\ files # <<>>

\* the job met no failure other than a decode, rate or mux failure of a clip
OnlyClipFailures == resp.kind # "ffmpeg not found"

ClipDone(i) == clip_state[i] = "Done"

Returned(n) == \E j \in 1..Len(resp.names) : resp.names[j] = n

\* C4: when the job has ended, every clip with a video and an audio was
\* processed, whatever happened to the other clips, and the job returns
\* exactly the outputs of the clips that succeeded.
C4_FailureKeepsSiblings ==
    (JobEnded /\ OnlyClipFailures) =>
        /\ \A i \in 1..Len(clips) :
               ValidClip(clips[i]) => clip_state[i] \in {"Done", "Failed"}
        /\ (\E i \in 1..Len(clips) : ClipDone(i)) =>
               /\ resp.status = 200
               /\ \A i \in 1..Len(clips) :
                      ClipDone(i) <=> Returned(OutName(clips[i].key))

\* C5: the job succeeds exactly if some clip is Done, and a job in which no
\* clip is Done ends with the "no valid groups" failure.
C5_JobOutcome ==
    JobEnded =>
        /\ resp.status = 200 <=> \E i \in 1..Len(clips) : ClipDone(i)
        /\ (\A i \in 1..Len(clips) : ~ClipDone(i)) => resp.kind = "novalid"

\* C6: when the job has ended, neither its temporary directory nor a
\* per-clip scratch directory exists.
C6_TempFilesDeleted == jpc = "done" => (~tmpdir_exists /\ ~workdir_exists)


\* ------------------------------------------------------------------------
\* Grouping of the uploads
\* ------------------------------------------------------------------------
Grouped == jpc = "grouped"

\* the part of a base name before its first "_"
RECURSIVE BeforeUnderscore(_)
BeforeUnderscore(stem) ==
    IF stem = <<>> \/ Head(stem) = "_" THEN <<>>
    ELSE <<Head(stem)>> \o BeforeUnderscore(Tail(stem))

KeyTokens(key) == IF key = "" THEN <<>> ELSE <<key>>

Count(seq, x) == Cardinality({ i \in DOMAIN seq : seq[i] = x })

InList(seq, x) == \E i \in DOMAIN seq : seq[i] = x

\* the file stored as `stored` is in the clip whose key is `part`, in the
\* list its extension asks for, and in no other list
PlacedBy(part, stored) ==
    \E i \in 1..Len(clips) :
        /\ KeyTokens(clips[i].key) = part
        /\ InList(clips[i].videos, stored) <=> Lower(stored.ext) \in VIDEO_EXTS
        /\ InList(clips[i].audios, stored) <=> Lower(stored.ext) \in AUDIO_EXTS
        /\ \A j \in 1..Len(clips) :
              j # i => ~InList(clips[j].videos, stored) /\ ~InList(clips[j].audios, stored)

\* C11, as stated: every uploaded file is in the clip whose key is the part
\* of the base name it was uploaded with before the first "_", in videos or
\* audios by its extension, in no list for another extension.
C11_GroupingByUploadName ==
    Grouped =>
        \A k \in 1..Len(files) :
            PlacedBy(BeforeUnderscore(files[k].stem), secure_filename(files[k]))

Stored(k) == secure_filename(files[k])

\* C11, amended: every uploaded file whose sanitized name is not empty is in
\* the clip whose key is the part of its sanitized base name before the
\* first "_", in videos or audios by its lower-cased extension and in no
\* list for another extension; the lists hold nothing else, each name as
\* often as it was uploaded.
C11_Grouping ==
    Grouped =>
        /\ \A k \in 1..Len(files) :
              Stored(k) # EmptyName =>
                  PlacedBy(BeforeUnderscore(Stored(k).stem), Stored(k))
        /\ \A i \in 1..Len(clips) :
              /\ \E k \in 1..Len(files) :
                    /\ Stored(k) # EmptyName
                    /\ BeforeUnderscore(Stored(k).stem) = KeyTokens(clips[i].key)
              /\ \A j \in 1..Len(clips) : clips[j].key = clips[i].key => j = i
              /\ \A x \in {clips[i].videos[j] : j \in 1..Len(clips[i].videos)}
                        \cup {clips[i].audios[j] : j \in 1..Len(clips[i].audios)} :
                    /\ x # EmptyName
                    /\ Count(clips[i].videos, x) + Count(clips[i].audios, x)
                         = Cardinality({ k \in 1..Len(files) : Stored(k) = x })

\* a name with a blank is grouped by its sanitized name, a file that is
\* neither video nor audio is in no list, an empty name is skipped
C11_Witness ==
    /\ Grouped
    /\ InList(files, Name(<<"B", " ", "zoom">>, ".WAV"))
    /\ InList(files, Name(<<"C">>, ".txt"))
    /\ InList(files, EmptyName)
    /\ \E i \in 1..Len(clips) :
          /\ clips[i].key = "B"
          /\ InList(clips[i].audios, Name(<<"B", "_", "zoom">>, ".WAV"))
    /\ \E i \in 1..Len(clips) :
          /\ clips[i].key = "C"
          /\ clips[i].videos = <<>>
          /\ clips[i].audios = <<>>

\* ------------------------------------------------------------------------
\* The clips of a job
\* ------------------------------------------------------------------------
\* the uploads of a clip key that are videos, by their position in the upload
VideoUploads(key) ==
    { k \in 1..Len(files) :
        LET stored == Stored(k)
        IN  /\ stored # EmptyName
            /\ Lower(stored.ext) \in VIDEO_EXTS
            /\ BeforeUnderscore(stored.stem) = KeyTokens(key) }

\* the video of a clip key that was uploaded first
Earliest(positions) == CHOOSE k \in positions : \A l \in positions : k <= l

FirstVideo(key) == Stored(Earliest(VideoUploads(key)))

\* the videos of a clip key uploaded after the first, under another name
LaterVideos(key) ==
    LET positions == VideoUploads(key)
    IN  IF positions = {} THEN {}
        ELSE { Stored(k) : k \in positions } \ {Stored(Earliest(positions))}

RunsOf(i) == { r \in 1..Len(ffmpeg_runs) : ffmpeg_runs[r].clip = i }

OutputsOf(key) == { o \in 1..Len(outputs) : outputs[o][1] = key }

Incomplete(c) == c.videos = <<>> \/ c.audios = <<>>

\* C13: a clip with only videos or only audio is never processed (it stays
\* Pending, no ffmpeg command is run for it, it has no output); a job that
\* fails does so in a clip that has both, and a job whose clips with both
\* are all done returns their outputs.
C13_IncompleteClipSkipped ==
    /\ \A i \in 1..Len(clips) :
          Incomplete(clips[i]) =>
              /\ clip_state[i] = "Pending"
              /\ RunsOf(i) = {}
              /\ OutputsOf(clips[i].key) = {}
              /\ OutName(clips[i].key) \in tmp_files
                    => OutName(clips[i].key) \in SavedNames(files)
    /\ jpc = "done" /\ resp.status = 500 =>
          ~Incomplete(clips[ci]) /\ clip_state[ci] = "Failed"
    /\ /\ jpc = "done"
       /\ \E j \in 1..Len(clips) : ~Incomplete(clips[j])
       /\ \A j \in 1..Len(clips) : ~Incomplete(clips[j]) => clip_state[j] = "Done"
       => /\ resp.status = 200
          /\ Len(resp.names) =
                Cardinality({ j \in 1..Len(clips) : ~Incomplete(clips[j]) })

\* a job with an incomplete clip ahead of a complete one has returned the
\* output of the complete one
C13_Witness ==
    /\ jpc = "done"
    /\ resp.status = 200
    /\ \E i, j \in 1..Len(clips) :
          /\ i < j
          /\ Incomplete(clips[i])
          /\ clips[i].videos # <<>> \/ clips[i].audios # <<>>
          /\ clip_state[j] = "Done"

\* the list of uploads with the uploads at positions a and b exchanged
Swap(seq, a, b) ==
    [k \in 1..Len(seq) |-> IF k = a THEN seq[b] ELSE IF k = b THEN seq[a] ELSE seq[k]]

SameFiles(s, t) ==
    \A x \in {s[k] : k \in 1..Len(s)} \cup {t[k] : k \in 1..Len(t)} :
        Count(s, x) = Count(t, x)

\* two groupings map the same keys to the same videos and the same audios;
\* the reference video is the same where the key has one video only
SameMapping(c, d) ==
    /\ {c[i].key : i \in 1..Len(c)} = {d[i].key : i \in 1..Len(d)}
    /\ \A i \in 1..Len(c), j \in 1..Len(d) :
          c[i].key = d[j].key =>
              /\ SameFiles(c[i].videos, d[j].videos)
              /\ SameFiles(c[i].audios, d[j].audios)
              /\ Cardinality({c[i].videos[k] : k \in 1..Len(c[i].videos)}) = 1
                    => c[i].videos[1] = d[j].videos[1]

\* C14: enumerating the same uploads in another order gives the same keys,
\* each with the same videos and the same external audios.  Exchanging two
\* uploads generates every order, and every list of uploads is checked.
C14_GroupingDeterminism ==
    Grouped =>
        \A a, b \in 1..Len(files) :
            SameMapping(clips, classify_and_group_files(Swap(files, a, b)))

\* two keys with several files, uploaded in an order that another order
\* groups into a different list of clips with the same mapping
C14_Witness ==
    /\ Grouped
    /\ Len(clips) >= 2
    /\ \E i \in 1..Len(clips) : Len(clips[i].audios) >= 2
    /\ \E a, b \in 1..Len(files) :
          /\ classify_and_group_files(Swap(files, a, b)) # clips
          /\ SameMapping(clips, classify_and_group_files(Swap(files, a, b)))

\* ------------------------------------------------------------------------
\* The mux command
\* ------------------------------------------------------------------------
MuxRuns == { r \in 1..Len(ffmpeg_runs) : ffmpeg_runs[r].args.kind = "mux" }

ProRes == <<"-c:v", "prores_ks", "-profile:v", "3", "-pix_fmt", "yuv422p10le">>

StreamCopy == <<"-c:v", "copy">>

\* C15: in every mux command the video is transcoded to prores_ks, profile
\* 3, yuv422p10le when the extension of the reference video, in any case, is
\* a RAW extension, and stream-copied for any other video extension; the
\* audio codec is pcm_s16le and the flags -shortest and +faststart are set.
C15_MuxCodecBranch ==
    \A r \in MuxRuns :
        LET args == ffmpeg_runs[r].args
            ext  == Lower(args.inputs[1].name.ext)
        IN  /\ ext \in VIDEO_EXTS
            /\ ext \in RAW_VIDEO_EXTS => args.vcodec = ProRes
            /\ ext \notin RAW_VIDEO_EXTS => args.vcodec = StreamCopy
            /\ args.acodec = "pcm_s16le"
            /\ args.flags = {"-shortest", "-movflags +faststart"}

\* a job has muxed a clip whose video is RAW with an upper-case extension
\* and a clip whose video is not RAW
C15_Witness ==
    /\ \E r \in MuxRuns :
          /\ ffmpeg_runs[r].args.inputs[1].name.ext = ".BRAW"
          /\ ffmpeg_runs[r].args.vcodec = ProRes
    /\ \E r \in MuxRuns :
          /\ ffmpeg_runs[r].args.inputs[1].name.ext = ".mp4"
          /\ ffmpeg_runs[r].args.vcodec = StreamCopy

\* the uploads of a clip key that are external audio, by their position
AudioUploads(key) ==
    { k \in 1..Len(files) :
        LET stored == Stored(k)
        IN  /\ stored # EmptyName
            /\ Lower(stored.ext) \in AUDIO_EXTS
            /\ BeforeUnderscore(stored.stem) = KeyTokens(key) }

\* the m-th external audio of a clip key in upload order
NthAudio(key, m) ==
    LET as == AudioUploads(key)
    IN  Stored(CHOOSE k \in as : Cardinality({ l \in as : l < k }) = m - 1)

\* C16: the inputs of the mux are the reference video, then one aligned file
\* per external audio of the clip, in the order the externals were uploaded;
\* the output takes the video stream, then the audio of the video as its
\* first audio track, then external i as audio track i + 1.
C16_MuxOrder ==
    /\ jpc = "mux" =>
          LET n == Cardinality(AudioUploads(clips[ci].key))
          IN  /\ Len(aligned_paths) = n
              /\ \A m \in 1..n :
                    /\ aligned_paths[m] = WorkPath(ci, AlignedWav(m - 1))
                    /\ WorkFile(AlignedWav(m - 1), NthAudio(clips[ci].key, m))
                          \in work_files
    /\ \A r \in MuxRuns :
          LET args == ffmpeg_runs[r].args
              i    == ffmpeg_runs[r].clip
              n    == Cardinality(AudioUploads(clips[i].key))
          IN  /\ Len(args.inputs) = n + 1
              /\ args.inputs[1] = JobPath(FirstVideo(clips[i].key))
              /\ \A m \in 1..n : args.inputs[m + 1] = WorkPath(i, AlignedWav(m - 1))
              /\ Len(args.maps) = n + 2
              /\ args.maps[1] = <<0, "v", 0>>
              /\ args.maps[2] = <<0, "a", 0>>
              /\ \A m \in 1..n : args.maps[m + 2] = <<m, "a", 0>>

\* a clip with two different externals has been muxed
C16_Witness ==
    \E r \in MuxRuns :
        LET i == ffmpeg_runs[r].clip
        IN  /\ ffmpeg_runs[r].ok
            /\ Len(clips[i].audios) = 2
            /\ clips[i].audios[1] = Name(<<"A", "_", "boom">>, ".wav")
            /\ clips[i].audios[2] = Name(<<"A", "_", "zoom">>, ".wav")
            /\ Len(ffmpeg_runs[r].args.inputs) = 3

\* ------------------------------------------------------------------------
\* The response of a job
\* ------------------------------------------------------------------------
DoneClips == { i \in 1..Len(clips) : clip_state[i] = "Done" }

\* C17: when the job has ended, ffmpeg being installed, and exactly one clip
\* produced its output, the response is that file, named
\* <clip_key>_synced.mov; when several clips produced their output, the
\* response is one archive whose entries are the outputs of exactly these
\* clips, each once.
C17_OutputShape ==
    jpc = "done" /\ OnlyClipFailures =>
        /\ Cardinality(DoneClips) = 1 =>
              \E i \in DoneClips :
                  resp = Resp(200, "file", <<OutName(clips[i].key)>>)
        /\ Cardinality(DoneClips) > 1 =>
              /\ resp.status = 200
              /\ resp.kind = "zip"
              /\ Len(resp.names) = Cardinality(DoneClips)
              /\ \A i \in DoneClips : InList(resp.names, OutName(clips[i].key))

\* ------------------------------------------------------------------------
\* The phases of a clip
\* ------------------------------------------------------------------------
Forward ==
    { <<"Pending", "Decoding">>, <<"Decoding", "Estimating">>,
      <<"Estimating", "Aligning">>, <<"Aligning", "Muxing">>,
      <<"Muxing", "Done">> }

Failing ==
    { <<p, "Failed">> :
        p \in {"Pending", "Decoding", "Estimating", "Aligning", "Muxing"} }

\* the clips of the job in a step and after it
Both == (DOMAIN clip_state) \cap (DOMAIN clip_state')

\* Muxing is entered when every external of the clip has been aligned
MuxingAfterAll(i) ==
    clip_state'[i] = "Muxing" /\ clip_state[i] # "Muxing"
        => Len(aligned_paths') = Cardinality(AudioUploads(clips[i].key))

\* C18, as stated: a clip changes phase only forwards along Pending,
\* Decoding, Estimating, Aligning, Muxing, Done, or to Failed; Done and
\* Failed are never left; Muxing is entered only after every external has
\* been aligned.
C18_StrictlySequential ==
    [][\A i \in Both :
          /\ clip_state'[i] # clip_state[i]
                => <<clip_state[i], clip_state'[i]>> \in Forward \cup Failing
          /\ MuxingAfterAll(i)]_vars

\* C18, amended: as above, except that a clip goes from Aligning back to
\* Decoding when another external of the clip is still to be aligned.
C18_PhasesPerExternal ==
    [][\A i \in Both :
          /\ clip_state'[i] # clip_state[i]
                => \/ <<clip_state[i], clip_state'[i]>> \in Forward \cup Failing
                   \/ /\ clip_state[i] = "Aligning"
                      /\ clip_state'[i] = "Decoding"
                      /\ Len(aligned_paths') < Cardinality(AudioUploads(clips[i].key))
          /\ MuxingAfterAll(i)]_vars

\* a clip with two externals is decoding its second external
C18_Witness ==
    /\ jpc = "ext"
    /\ ei = 2
    /\ clip_state[ci] = "Decoding"
    /\ Len(aligned_paths) = 1
    /\ Len(clips[ci].audios) = 2

\* the request ended with the sample rate mismatch of external ei of clip ci
RateFailure == jpc = "done" /\ resp.kind = "Sample rate mismatch"

\* C19: an offset is estimated and an external aligned only when its sample
\* rate is that of the video; when the rates differ the clip fails: no
\* offset is estimated for that external (only the externals before it were
\* aligned), no mux command is run for the clip and it has no output.
C19_RateMismatchFatal ==
    /\ jpc \in {"estimate", "align"} => ext_rate = sample_rate
    /\ RateFailure =>
          /\ ext_rate # sample_rate
          /\ clip_state[ci] = "Failed"
          /\ Len(aligned_paths) = ei - 1
          /\ \A r \in RunsOf(ci) : ffmpeg_runs[r].args.kind # "mux"
          /\ OutputsOf(clips[ci].key) = {}
          /\ OutName(clips[ci].key) \in tmp_files
                => OutName(clips[ci].key) \in SavedNames(files)

\* the second external of a clip had another sample rate than the video
C19_Witness ==
    /\ RateFailure
    /\ ei = 2
    /\ ext_rate # sample_rate
    /\ Len(aligned_paths) = 1

\* ------------------------------------------------------------------------
\* The paths of a job
\* ------------------------------------------------------------------------
\* the paths classify_and_group_files stored the uploads at
UploadPaths == { JobPath(n) : n \in SavedNames(files) }

\* C20: the output path of a mux command is the stored path of no uploaded
\* file of the job.
C20_OutputNotAnUpload ==
    \A r \in MuxRuns : ffmpeg_runs[r].args.output \notin UploadPaths

\* C21: different uploads of a job are stored at different paths, and no
\* path occurs twice in the videos or in the audios of a clip.
C21_DistinctStoredPaths ==
    Grouped =>
        /\ \A k, l \in 1..Len(files) :
              k # l /\ Stored(k) # EmptyName /\ Stored(l) # EmptyName
                  => JobPath(Stored(k)) # JobPath(Stored(l))
        /\ \A i \in 1..Len(clips) :
              /\ \A j \in 1..Len(clips[i].videos) :
                    Count(clips[i].videos, clips[i].videos[j]) = 1
              /\ \A j \in 1..Len(clips[i].audios) :
                    Count(clips[i].audios, clips[i].audios[j]) = 1

\* ------------------------------------------------------------------------
\* The scratch directory of a clip
\* ------------------------------------------------------------------------
InCall == jpc \in {"cam", "ext", "estimate", "align", "mux"}

\* the paths an ffmpeg command names
PathsOf(args) == {args.inputs[j] : j \in 1..Len(args.inputs)} \cup {args.output}

\* C25: the scratch directory of a clip exists exactly while
\* process_clip_to_multitrack_mov runs for the clip; it is empty when the
\* call starts; the commands of a clip name no scratch directory but the
\* clip's own; once the call has returned or raised, the directory and the
\* files decoded and aligned in it are gone.
C25_ScratchIsolation ==
    /\ workdir_exists <=> InCall
    /\ ~InCall => work_files = {}
    /\ jpc = "cam" => work_files = {}
    /\ InCall => \A m \in 1..Len(aligned_paths) : aligned_paths[m].n = ci
    /\ \A r \in 1..Len(ffmpeg_runs) :
          \A p \in PathsOf(ffmpeg_runs[r].args) :
              p.dir = "workdir" => p.n = ffmpeg_runs[r].clip

\* a first clip has returned and a second has raised at its rate check
C25_Witness ==
    /\ jpc = "done"
    /\ Len(clips) >= 2
    /\ clip_state[1] = "Done"
    /\ clip_state[2] = "Failed"
    /\ resp.kind = "Sample rate mismatch"
    /\ ~workdir_exists
    /\ work_files = {}
    /\ \E r \in RunsOf(2) : ffmpeg_runs[r].args.output = WorkPath(2, CamWav)

\* C22: the file stored for a recorded job still holds the output of the job
\* that created the record, and records of different jobs have different
\* storage paths.
C22_StoredOutputKept ==
    /\ \A r \in 1..Len(sync_jobs) :
          \E f \in storage :
              /\ f.path = sync_jobs[r].storage_path
              /\ f.holds = Content(sync_jobs[r].job, sync_jobs[r].clip_key)
    /\ \A r, q \in 1..Len(sync_jobs) :
          sync_jobs[r].job # sync_jobs[q].job
              => sync_jobs[r].storage_path # sync_jobs[q].storage_path

\* the responses only /download gives: the last request was a download
LastWasDownload == resp.kind \in {"login", "notfound", "gone", "download"}

FileServed == served.path # NoServed.path

\* C24: /download/<job_id> sends a stored file only when the user of the
\* session is the user of the job's row; without a session it redirects to
\* the login page, and for a job of another user or an unknown job id it
\* answers 404, sending no file in either case.
C24_DownloadOwnJobsOnly ==
    LastWasDownload =>
        LET j == served.job_id
            known == j \in 1..Len(sync_jobs)
        IN  /\ session_user = 0
                  => resp = Resp(302, "login", <<>>) /\ ~FileServed
            /\ session_user # 0 /\ (~known \/ sync_jobs[j].user_id # session_user)
                  => resp.status = 404 /\ ~FileServed
            /\ FileServed
                  => /\ session_user # 0
                     /\ known
                     /\ sync_jobs[j].user_id = session_user
                     /\ served.path = sync_jobs[j].storage_path
                     /\ served.path.user_id = session_user
                     /\ resp = Resp(200, "download", <<sync_jobs[j].filename>>)

\* a logged-in user who has a job of their own asked for the job of another
\* user and got 404
C24_Witness ==
    /\ LastWasDownload
    /\ session_user # 0
    /\ served.job_id \in 1..Len(sync_jobs)
    /\ sync_jobs[served.job_id].user_id # session_user
    /\ resp.status = 404
    /\ ~FileServed
    /\ \E q \in 1..Len(sync_jobs) : sync_jobs[q].user_id = session_user

\* the signup requests whose email is e after lower-casing and trimming
SignupsFor(e) == { i \in 1..Len(signups) : NormEmail(signups[i].email) = e }

\* the requests that ended logged in as the user of a row they created
Created(e) ==
    { i \in SignupsFor(e) :
        /\ signups[i].pc = "done"
        /\ signups[i].session # signups[i].cookie
        /\ signups[i].session > Len(ExistingUsers) }

ErrorPages ==
    { Resp(200, "required", <<>>), Resp(200, "registered", <<>>),
      Resp(200, "notcreated", <<>>) }

\* C23: among concurrent signup requests whose emails are equal after
\* lower-casing and trimming, at most one users row is created and at most
\* one request ends logged in as a newly created user; every other request
\* gets an error page and its session is left as it was.
C23_OneAccountPerEmail ==
    \A e \in { NormEmail(signups[i].email) : i \in 1..Len(signups) } :
        /\ Cardinality({ u \in 1..Len(users) : users[u].email = e }) <= 1
        /\ Cardinality(Created(e)) <= 1
        /\ \A i \in Created(e) :
              /\ signups[i].session \in 1..Len(users)
              /\ users[signups[i].session].email = e
              /\ signups[i].resp = Resp(302, "profile", <<>>)
        /\ \A i \in SignupsFor(e) \ Created(e) :
              /\ signups[i].session = signups[i].cookie
              /\ signups[i].pc = "done" => signups[i].resp \in ErrorPages

\* two requests for the same account both found no row for the email; one
\* created the account, the other got the error page of the failed insert
C23_Witness ==
    /\ signups[1].email # signups[2].email
    /\ NormEmail(signups[1].email) = NormEmail(signups[2].email)
    /\ signups[1].pc = "done" /\ signups[2].pc = "done"
    /\ signups[1].resp = Resp(200, "notcreated", <<>>)
    /\ signups[2].resp = Resp(302, "profile", <<>>)
    /\ signups[1].cookie = 1 /\ signups[1].session = 1
    /\ Len(users) = Len(ExistingUsers) + 1
====
